---------------------------- MODULE Spec2Model ----------------------------
(***************************************************************************)
(* Task and shared-memory layer of the kernel (src/kernel/tasking.c).      *)
(*                                                                         *)
(* One CPU.  `running` is the task the scheduler has dispatched; only it   *)
(* executes steps.  A timer interrupt can preempt it whenever the          *)
(* atomic-section depth is 0.  Every atomic section of the source is one   *)
(* action (the garbage collector's sweep, which is long, is a sequence of  *)
(* actions taken with the depth above 0, so nothing interleaves with it).  *)
(* The scheduler, the blocker factories, the lists and the locks are not   *)
(* part of tasking.c; they are modelled from the specification text.       *)
(*                                                                         *)
(* Spec follows the task life cycle from tasking_initialize on; SpecShm     *)
(* follows the shared-memory operations of two user tasks, step by step    *)
(* between the points where a preemption can be observed.                  *)
(***************************************************************************)
EXTENDS Integers, Sequences, FiniteSets, TLC

\* ------------------------------------------------------------------ bounds
MaxTasks == 5
MaxUserTasks == 1
MaxTick == 101
MaxBusyTicks == 5
MaxObjects == 2
MaxMappings == 2

\* values the environment passes to the operations
ExitValues == {7, 42}
SleepTimes == {0, 1}
Sizes == {1}

\* --------------------------------------------------------------- constants
GC_INTERVAL == 100
NULL == -1
INFINITE == -1
UNSET == -2

IdleSlot == 0
SystemSlot == 1
GcSlot == 2

PAGE_SIZE == 4096

\* The page directories: memory_kpdir(), and the one memory_pdir_create()
\* makes for the task in slot s.
memory_kpdir == 0
memory_pdir_create(s) == s + 1

Slots == 0 .. (MaxTasks - 1)
UserSlots == {s \in Slots : s > GcSlot}
FirstUserSlot == GcSlot + 1
Actors == UserSlots \cup {SystemSlot}
WaitIds == {i \in 0 .. MaxTasks : i > GcSlot}

TaskStates == {"NONE", "RUNNING", "BLOCKED", "HANG", "CANCELED"}

\* what a read of a freed Task can yield
GarbageReads == [state : {"NONE", "CANCELED"}, exit_value : ExitValues \cup {0}]

ObjectSlots == 0 .. (MaxObjects - 1)
Handles == 0 .. (MaxObjects - 1)

\* what __atomic_sub_fetch on the refcount of a freed MemoryObject can yield
GarbageCounts == {0, 1}

\* the bases virtual_alloc can hand out
\* The file system: "/" and "/a" are directories, "/f" and "/a/f" are files.
\* A path is the list of its names; a buffer is the text of a path, cut at the
\* separators, which it keeps.
FsNodes == 0 .. 3
Buffers ==
    {<<"/", "a">>, <<"f">>, <<"x">>, <<"..">>}

PageDirectories == {memory_kpdir} \cup {memory_pdir_create(s) : s \in Slots}

VirtualBases == {PAGE_SIZE * k : k \in 1 .. (2 * MaxMappings)}

VARIABLES
    TID,            \* static int TID
    all_tasks,      \* static List *all_tasks, a sequence of task slots
    task,           \* the Task structures, by slot (a slot is a Task pointer)
    heap,           \* allocation status of each Task: "unused", "live", "freed"
    blk,            \* the Blocker each task last created, by owning task
    out,            \* the int each task passes as exit_value to task_wait
    sched,          \* the transitions reported to the scheduler by the last step
    atomic_depth,   \* nesting depth of atomic_begin / atomic_end
    panic,          \* an assertion failed: the kernel halted
    running,        \* scheduler_running()
    tick,           \* system_get_tick()
    pc,             \* where each task is in the operation it executes
    arg,            \* task_wait: the id asked for and the Task the lookup found
    boot,           \* how far tasking_initialize has come
    ret,            \* what the last step returned to its caller, if it returned
    gc_todo,        \* list_iterate in garbage_collector: tasks still to visit
    victim,         \* the task task_destroy is working on
    memory_object_id,       \* static int _memory_object_id
    memory_objects,         \* static List *_memory_objects, object slots
    memory_objects_lock,    \* the task holding _memory_objects_lock, or NULL
    object,                 \* the MemoryObject structures, by slot
    memory_mapping,         \* task->memory_mapping of each task
    pdir,                   \* task->pdir of each task
    pdir_destroyed,         \* how often memory_pdir_destroy was called on each
    cwd_path,               \* task->cwd_path of each task, as a list of names
    cwd_lock,               \* the task holding task->cwd_lock, or NULL
    fsnode_refs,            \* the references taken on each FsNode and not released
    asserted                \* the atomic depth at each ASSERT_ATOMIC of the last step

vars == <<TID, all_tasks, task, heap, blk, out, sched, atomic_depth, panic,
          running, tick, pc, arg, boot, ret, gc_todo, victim,
          memory_object_id, memory_objects, memory_objects_lock, object,
          memory_mapping, pdir, pdir_destroyed, cwd_path, cwd_lock,
          fsnode_refs, asserted>>

\* ----------------------------------------------------------------- helpers
Range(f) == {f[i] : i \in DOMAIN f}

list_remove(list, x) == SelectSeq(list, LAMBDA y : y # x)

\* The part of the state the C functions below read and write.
World ==
    [TID |-> TID, all_tasks |-> all_tasks, task |-> task, heap |-> heap,
     blk |-> blk, out |-> out, sched |-> <<>>, asserted |-> <<>>,
     atomic_depth |-> atomic_depth, panic |-> panic,
     memory_object_id |-> memory_object_id, memory_objects |-> memory_objects,
     memory_objects_lock |-> memory_objects_lock, object |-> object,
     memory_mapping |-> memory_mapping,
     pdir |-> pdir, pdir_destroyed |-> pdir_destroyed,
     cwd_path |-> cwd_path, cwd_lock |-> cwd_lock, fsnode_refs |-> fsnode_refs]

SetWorld(W) ==
    /\ TID' = W.TID
    /\ all_tasks' = W.all_tasks
    /\ task' = W.task
    /\ heap' = W.heap
    /\ blk' = W.blk
    /\ out' = W.out
    /\ sched' = W.sched
    /\ atomic_depth' = W.atomic_depth
    /\ panic' = W.panic
    /\ memory_object_id' = W.memory_object_id
    /\ memory_objects' = W.memory_objects
    /\ memory_objects_lock' = W.memory_objects_lock
    /\ object' = W.object
    /\ memory_mapping' = W.memory_mapping
    /\ pdir' = W.pdir
    /\ pdir_destroyed' = W.pdir_destroyed
    /\ cwd_path' = W.cwd_path
    /\ cwd_lock' = W.cwd_lock
    /\ fsnode_refs' = W.fsnode_refs
    /\ asserted' = W.asserted

\* ---------------------------------------------------------- atomic section
atomic_begin(W) == [W EXCEPT !.atomic_depth = @ + 1]

atomic_end(W) == [W EXCEPT !.atomic_depth = @ - 1]

ASSERT_ATOMIC(W) ==
    LET W1 == [W EXCEPT !.asserted = Append(@, W.atomic_depth)]
    IN  IF W.atomic_depth > 0 THEN W1 ELSE [W1 EXCEPT !.panic = TRUE]

\* --------------------------------------------------------------- scheduler
\* The scheduler is told a transition; `seen` is the state it finds the task
\* in at that moment.
scheduler_did_change_task_state(W, t, old, new) ==
    [W EXCEPT !.sched = Append(@, [task |-> t, old |-> old, new |-> new,
                                   seen |-> W.task[t].state])]

\* The tasks the scheduler may dispatch: the RUNNING ones, else the idle task.
scheduler_pick(W) ==
    LET R == {t \in Range(W.all_tasks) : W.task[t].state = "RUNNING"}
    IN  IF R = {} THEN {IdleSlot} ELSE R

\* ------------------------------------------------------------------- tasks
NoTask ==
    [id |-> NULL, state |-> "NONE", blocker |-> NULL, exit_value |-> 0]

NoBlocker ==
    [kind |-> "none", deadline |-> 0, target |-> NULL,
     timeout |-> INFINITE, result |-> "NONE", calls |-> 0]

\* A return: the task that returned, the result code and, for task_wait, the
\* id it was called with, what it left in *exit_value, and the exit value the
\* task of that id had been cancelled with when task_wait was called; for a
\* shared-memory operation, which one it was, the handle and the address it
\* was called with or gave back, the size it gave back, and the frame's peer;
\* for a call of task_block that returned without yielding, what task_block
\* returned and how often it had called on_unblock.
NoRet ==
    [task |-> NULL, code |-> "NONE", id |-> NULL, out |-> UNSET, expect |-> 0,
     op |-> "none", handle |-> NULL, address |-> 0, size |-> 0, peer |-> NULL,
     block |-> "NONE", calls |-> 0]

Return(s, code) == [NoRet EXCEPT !.task = s, !.code = code]

\* task_wait's frame: the id, the Task found, and the exit value the task of
\* that id had been cancelled with when task_wait was called (0: not cancelled).
\* A shared-memory operation's frame: the operation, the handle it was called
\* with, its MemoryObject pointer, and the address and size of its mapping;
\* `id` holds the value memory_object_create has read from _memory_object_id,
\* `peer` an object of that handle which another task had allocated and still
\* had mapped when task_shared_memory_include was called (NULL: there is none).
\* task_sleep's frame: the timeout it was called with and the tick it was
\* called at.  task_set_cwd's frame: its Path and its FsNode.
NoArg ==
    [id |-> NULL, task |-> NULL, expect |-> 0,
     op |-> "none", handle |-> NULL, object |-> NULL, address |-> 0, size |-> 0,
     peer |-> NULL, since |-> 0, timeout |-> 0, path |-> <<>>, node |-> NULL]

\* task_create with `task->id = TID` for `task->id = TID++`
task_create_no_increment(W, n, user) ==
    LET W0 == ASSERT_ATOMIC(W)
    IN  [W0 EXCEPT
            !.task[n] = [id |-> W0.TID, state |-> "NONE",
                         blocker |-> NULL, exit_value |-> 0],
            !.pdir[n] = IF user THEN memory_pdir_create(n) ELSE memory_kpdir,
            !.cwd_path[n] = <<>>,
            !.cwd_lock[n] = NULL,
            !.heap[n] = "live",
            !.all_tasks = Append(@, n)]

task_create(W, n, user) ==
    LET W0 == ASSERT_ATOMIC(W)
    IN  [W0 EXCEPT
            !.task[n] = [id |-> W0.TID, state |-> "NONE",
                         blocker |-> NULL, exit_value |-> 0],
            !.pdir[n] = IF user THEN memory_pdir_create(n) ELSE memory_kpdir,
            !.cwd_path[n] = <<>>,
            !.cwd_lock[n] = NULL,
            !.TID = @ + 1,
            !.heap[n] = "live",
            !.all_tasks = Append(@, n)]

task_by_id(W, id) ==
    LET hits == {i \in 1 .. Len(W.all_tasks) : W.task[W.all_tasks[i]].id = id}
    IN  IF hits = {} THEN NULL
        ELSE W.all_tasks[CHOOSE i \in hits : \A j \in hits : i <= j]

\* task_set_state that tells the scheduler after it has changed the state
task_set_state_late_notify(W, t, state) ==
    LET W0 == ASSERT_ATOMIC(W)
        W1 == [W0 EXCEPT !.task[t].state = state]
    IN  scheduler_did_change_task_state(W1, t, W1.task[t].state, state)

task_set_state(W, t, state) ==
    LET W0 == ASSERT_ATOMIC(W)
        W1 == scheduler_did_change_task_state(W0, t, W0.task[t].state, state)
    IN  [W1 EXCEPT !.task[t].state = state]

\* task_spawn_with_argv: atomic_begin, task_create, the pushes, atomic_end.
task_spawn_with_argv_body(W, n, user) ==
    atomic_end(task_create(atomic_begin(W), n, user))

\* task_go: the stack frame, then the atomic transition to RUNNING.
task_go_body(W, t) == atomic_end(task_set_state(atomic_begin(W), t, "RUNNING"))

task_cancel_body_not_atomic(W, t, v) ==
    task_set_state([W EXCEPT !.task[t].exit_value = v], t, "CANCELED")

task_cancel_body(W, t, v) ==
    LET W1 == atomic_begin(W)
        W2 == [W1 EXCEPT !.task[t].exit_value = v]
    IN  atomic_end(task_set_state(W2, t, "CANCELED"))

\* task_destroy without its list_remove
task_destroy_keep_listed(W, t) ==
    LET W1 == atomic_begin(W)
        W2 == IF W1.task[t].state # "NONE" THEN task_set_state(W1, t, "NONE") ELSE W1
    IN  atomic_end(W2)

\* task_destroy, lines 110-116: the atomic part.
task_destroy_unregister(W, t) ==
    LET W1 == atomic_begin(W)
        W2 == IF W1.task[t].state # "NONE" THEN task_set_state(W1, t, "NONE") ELSE W1
        W3 == [W2 EXCEPT !.all_tasks = list_remove(@, t)]
    IN  atomic_end(W3)

\* task_destroy whose memory_pdir_destroy is not guarded
task_destroy_release_any(W, t) ==
    [W EXCEPT !.cwd_lock[t] = running,
              !.pdir_destroyed[W.pdir[t]] = @ + 1,
              !.heap[t] = "freed"]

\* task_destroy, lines 125-137: the address space and the Task
task_destroy_release(W, t) ==
    LET W0 == [W EXCEPT !.cwd_lock[t] = running]
        W1 == IF W0.pdir[t] # memory_kpdir
              THEN [W0 EXCEPT !.pdir_destroyed[W0.pdir[t]] = @ + 1]
              ELSE W0
    IN  [W1 EXCEPT !.heap[t] = "freed"]

\* ---------------------------------------------------------------- blockers
blocker_time_create(deadline) ==
    [kind |-> "time", deadline |-> deadline, target |-> NULL,
     timeout |-> INFINITE, result |-> "NONE", calls |-> 0]

blocker_wait_create(target) ==
    [kind |-> "wait", deadline |-> 0, target |-> target,
     timeout |-> INFINITE, result |-> "NONE", calls |-> 0]

\* What a blocker reads through its Task pointer: the task when it is live,
\* and whatever the freed memory holds (g) when it has been destroyed.
target_read(W, t, g) ==
    IF W.heap[t] = "live"
    THEN [state |-> W.task[t].state, exit_value |-> W.task[t].exit_value]
    ELSE g[t]

can_unblock(W, b, now, g) ==
    IF b.kind = "time" THEN now >= b.deadline
    ELSE target_read(W, b.target, g).state = "CANCELED"

on_unblock(W, s, b, g) ==
    IF b.kind = "wait"
    THEN [W EXCEPT !.out[s] = target_read(W, b.target, g).exit_value,
                   !.blk[s].calls = @ + 1]
    ELSE W

\* The freed tasks the installed wait blockers (and b, if it is one) point to.
Dangling(W, bs) ==
    {b.target : b \in {x \in bs : x.kind = "wait"}} \cap
        {t \in Slots : W.heap[t] = "freed"}

InstalledBlockers(W) ==
    {W.blk[t] : t \in {x \in Range(W.all_tasks) : W.task[x].blocker # NULL}}

\* task_block without `task->blocker = blocker`
task_block_no_install(W, s, b, timeout, now, g) ==
    IF W.task[s].blocker # NULL
    THEN [world |-> [W EXCEPT !.panic = TRUE], fast |-> FALSE,
          result |-> "NONE", calls |-> 0]
    ELSE
    LET W1 == atomic_begin(W)
        W2 == [W1 EXCEPT !.blk[s] = b]
    IN  IF can_unblock(W2, b, now, g)
        THEN LET W3 == on_unblock(W2, s, b, g)
                 W4 == [W3 EXCEPT !.task[s].blocker = NULL, !.blk[s] = NoBlocker]
             IN  [world |-> atomic_end(W4), fast |-> TRUE,
                  result |-> "UNBLOCKED", calls |-> W3.blk[s].calls]
        ELSE LET W3 == [W2 EXCEPT !.blk[s].timeout =
                            IF timeout = -1 THEN INFINITE ELSE now + timeout]
                 W4 == task_set_state(W3, s, "BLOCKED")
             IN  [world |-> atomic_end(W4), fast |-> FALSE,
                  result |-> "NONE", calls |-> 0]

\* task_block whose fast path leaves out `task->blocker = NULL`
task_block_keep_slot(W, s, b, timeout, now, g) ==
    IF W.task[s].blocker # NULL
    THEN [world |-> [W EXCEPT !.panic = TRUE], fast |-> FALSE,
          result |-> "NONE", calls |-> 0]
    ELSE
    LET W1 == atomic_begin(W)
        W2 == [W1 EXCEPT !.task[s].blocker = s, !.blk[s] = b]
    IN  IF can_unblock(W2, b, now, g)
        THEN [world |-> atomic_end(on_unblock(W2, s, b, g)), fast |-> TRUE,
              result |-> "UNBLOCKED", calls |-> on_unblock(W2, s, b, g).blk[s].calls]
        ELSE LET W3 == [W2 EXCEPT !.blk[s].timeout =
                            IF timeout = -1 THEN INFINITE ELSE now + timeout]
                 W4 == task_set_state(W3, s, "BLOCKED")
             IN  [world |-> atomic_end(W4), fast |-> FALSE,
                  result |-> "NONE", calls |-> 0]

\* task_block whose fast path leaves out atomic_end
task_block_fast_no_end(W, s, b, timeout, now, g) ==
    IF W.task[s].blocker # NULL
    THEN [world |-> [W EXCEPT !.panic = TRUE], fast |-> FALSE,
          result |-> "NONE", calls |-> 0]
    ELSE
    LET W1 == atomic_begin(W)
        W2 == [W1 EXCEPT !.task[s].blocker = s, !.blk[s] = b]
    IN  IF can_unblock(W2, b, now, g)
        THEN LET W3 == on_unblock(W2, s, b, g)
                 W4 == [W3 EXCEPT !.task[s].blocker = NULL, !.blk[s] = NoBlocker]
             IN  [world |-> W4, fast |-> TRUE,
                  result |-> "UNBLOCKED", calls |-> W3.blk[s].calls]
        ELSE LET W3 == [W2 EXCEPT !.blk[s].timeout =
                            IF timeout = -1 THEN INFINITE ELSE now + timeout]
                 W4 == task_set_state(W3, s, "BLOCKED")
             IN  [world |-> atomic_end(W4), fast |-> FALSE,
                  result |-> "NONE", calls |-> 0]

\* task_block up to its return (fast path) or to its scheduler_yield.
task_block(W, s, b, timeout, now, g) ==
    IF W.task[s].blocker # NULL
    THEN [world |-> [W EXCEPT !.panic = TRUE], fast |-> FALSE,
          result |-> "NONE", calls |-> 0]
    ELSE
    LET W1 == atomic_begin(W)
        W2 == [W1 EXCEPT !.task[s].blocker = s, !.blk[s] = b]
    IN  IF can_unblock(W2, b, now, g)
        THEN LET W3 == on_unblock(W2, s, b, g)
                 W4 == [W3 EXCEPT !.task[s].blocker = NULL, !.blk[s] = NoBlocker]
             IN  [world |-> atomic_end(W4), fast |-> TRUE,
                  result |-> "UNBLOCKED", calls |-> W3.blk[s].calls]
        ELSE LET W3 == [W2 EXCEPT !.blk[s].timeout =
                            IF timeout = -1 THEN INFINITE ELSE now + timeout]
                 W4 == task_set_state(W3, s, "BLOCKED")
             IN  [world |-> atomic_end(W4), fast |-> FALSE,
                  result |-> "NONE", calls |-> 0]

\* The scheduler's poll of one task, on a timer tick.
wakeup_task_if_unblocked(W, t, now, g) ==
    IF W.task[t].state # "BLOCKED" \/ W.task[t].blocker = NULL THEN W
    ELSE
    LET b == W.blk[t]
    IN  IF can_unblock(W, b, now, g)
        THEN LET W1 == on_unblock(W, t, b, g)
                 W2 == [W1 EXCEPT !.blk[t].result = "UNBLOCKED"]
             IN  task_set_state(W2, t, "RUNNING")
        ELSE IF b.timeout # INFINITE /\ b.timeout <= now
        THEN task_set_state([W EXCEPT !.blk[t].result = "TIMEOUT"], t, "RUNNING")
        ELSE W

RECURSIVE wakeup_blocked(_, _, _, _)
wakeup_blocked(W, ts, now, g) ==
    IF ts = <<>> THEN W
    ELSE wakeup_blocked(wakeup_task_if_unblocked(W, Head(ts), now, g),
                        Tail(ts), now, g)

\* task_wait whose early return leaves out atomic_end
task_wait_lookup_no_end(W, id) ==
    LET W1 == atomic_begin(W)
        t == task_by_id(W1, id)
    IN  IF t = NULL
        THEN [world |-> W1, task |-> NULL]
        ELSE [world |-> atomic_end(W1), task |-> t]

\* task_wait, lines 260-270: the lookup under atomic.
task_wait_lookup(W, id) ==
    LET W1 == atomic_begin(W)
        t == task_by_id(W1, id)
    IN  IF t = NULL
        THEN [world |-> atomic_end(W1), task |-> NULL]
        ELSE [world |-> atomic_end(W1), task |-> t]

\* task_spawn: ASSERT_ATOMIC, task_create, the entry and its argument.
task_spawn(W, n, user) == task_create(ASSERT_ATOMIC(W), n, user)

\* ----------------------------------------------------------- shared memory
PAGE_ALIGN_UP(size) == ((size + PAGE_SIZE - 1) \div PAGE_SIZE) * PAGE_SIZE

\* A MemoryObject: its fields, its allocation status ("unused", "live",
\* "freed") and the task whose memory_object_create allocated it.
NoObject ==
    [id |-> NULL, refcount |-> 0, size |-> 0, alloc |-> "unused", creator |-> NULL]

\* __create(MemoryObject): the lowest slot never handed out.
memory_object_alloc(W) ==
    CHOOSE o \in ObjectSlots :
        /\ W.object[o].alloc = "unused"
        /\ \A p \in ObjectSlots : p < o => W.object[p].alloc # "unused"

\* memory_object_create, lines 504-507, after the read of _memory_object_id
memory_object_create(W, o, id, size) ==
    [W EXCEPT !.memory_object_id = id + 1,
              !.object[o] = [@ EXCEPT !.id = id, !.refcount = 1, !.size = size]]

\* memory_object_destroy without its list_remove
memory_object_destroy_keep_listed(W, o) ==
    [W EXCEPT !.object[o].alloc = "freed", !.object[o].creator = NULL]

memory_object_destroy(W, o) ==
    [W EXCEPT !.memory_objects = list_remove(@, o),
              !.object[o].alloc = "freed",
              !.object[o].creator = NULL]

\* A write to a freed MemoryObject changes nothing the layer reads again.
memory_object_ref(W, o) ==
    IF W.object[o].alloc = "live"
    THEN [W EXCEPT !.object[o].refcount = @ + 1]
    ELSE W

\* memory_object_deref between its lock_acquire and its lock_release; g is
\* what the decrement yields when the object has been freed.
memory_object_deref(W, o, g) ==
    LET n == IF W.object[o].alloc = "live" THEN W.object[o].refcount - 1 ELSE g
        W1 == IF W.object[o].alloc = "live"
              THEN [W EXCEPT !.object[o].refcount = n]
              ELSE W
    IN  IF n = 0 THEN memory_object_destroy(W1, o) ELSE W1

\* memory_object_by_id between its lock_acquire and its lock_release
memory_object_by_id(W, id) ==
    LET hits == {i \in 1 .. Len(W.memory_objects) :
                    W.object[W.memory_objects[i]].id = id}
    IN  IF hits = {} THEN [world |-> W, object |-> NULL]
        ELSE LET o == W.memory_objects[CHOOSE i \in hits : \A j \in hits : i <= j]
             IN  [world |-> memory_object_ref(W, o), object |-> o]

lock_acquire(W, s) == [W EXCEPT !.memory_objects_lock = s]

lock_release(W) == [W EXCEPT !.memory_objects_lock = NULL]

NoMapping == [object |-> NULL, address |-> 0, size |-> 0]

\* The lowest base at which the range is free in the task's address space.
virtual_alloc(W, t, size) ==
    LET free(a) == \A i \in 1 .. Len(W.memory_mapping[t]) :
                        LET m == W.memory_mapping[t][i]
                        IN  a + size <= m.address \/ m.address + m.size <= a
    IN  CHOOSE a \in VirtualBases :
            free(a) /\ \A b \in VirtualBases : b < a => ~free(b)

\* task_memory_mapping_by_address that accepts any address of the mapping
task_memory_mapping_by_address_in_range(W, t, address) ==
    LET hits == {i \in 1 .. Len(W.memory_mapping[t]) :
                    /\ W.memory_mapping[t][i].address <= address
                    /\ address < W.memory_mapping[t][i].address
                                    + W.memory_mapping[t][i].size}
    IN  IF hits = {} THEN NoMapping
        ELSE W.memory_mapping[t][CHOOSE i \in hits : \A j \in hits : i <= j]

task_memory_mapping_by_address(W, t, address) ==
    LET hits == {i \in 1 .. Len(W.memory_mapping[t]) :
                    W.memory_mapping[t][i].address = address}
    IN  IF hits = {} THEN NoMapping
        ELSE W.memory_mapping[t][CHOOSE i \in hits : \A j \in hits : i <= j]

\* task_memory_mapping_destroy when nothing can interleave with it
task_memory_mapping_destroy(W, t, m, g) ==
    LET W1 == lock_release(memory_object_deref(lock_acquire(W, running), m.object, g))
    IN  [W1 EXCEPT !.memory_mapping[t] = list_remove(@, m)]

\* -------------------------------------------------------------------- Init
\* Before tasking_initialize: no task, and the kernel's start-up code runs
\* with interrupts off (task_spawn asserts it), which counts as depth 1.
Init ==
    /\ TID = 0
    /\ all_tasks = <<>>
    /\ task = [s \in Slots |-> NoTask]
    /\ heap = [s \in Slots |-> "unused"]
    /\ blk = [s \in Slots |-> NoBlocker]
    /\ out = [s \in Slots |-> UNSET]
    /\ sched = <<>>
    /\ atomic_depth = 1
    /\ panic = FALSE
    /\ running = NULL
    /\ tick = 0
    /\ pc = [s \in Slots |-> "none"]
    /\ arg = [s \in Slots |-> NoArg]
    /\ boot = "idle"
    /\ ret = NoRet
    /\ gc_todo = <<>>
    /\ victim = NULL
    /\ memory_object_id = 0
    /\ memory_objects = <<>>
    /\ memory_objects_lock = NULL
    /\ object = [o \in ObjectSlots |-> NoObject]
    /\ memory_mapping = [s \in Slots |-> <<>>]
    /\ pdir = [s \in Slots |-> NULL]
    /\ pdir_destroyed = [d \in PageDirectories |-> 0]
    /\ cwd_path = [s \in Slots |-> <<>>]
    /\ cwd_lock = [s \in Slots |-> NULL]
    /\ fsnode_refs = [n \in FsNodes |-> 0]
    /\ asserted = <<>>

\* ------------------------------------------------------ tasking_initialize
\* lines 35-39: the idle task
tasking_initialize_idle ==
    /\ boot = "idle"
    /\ LET W1 == task_spawn(World, IdleSlot, FALSE)
           W2 == task_go_body(W1, IdleSlot)
       IN  SetWorld(task_set_state(W2, IdleSlot, "HANG"))
    /\ pc' = [pc EXCEPT ![IdleSlot] = "hang"]
    /\ boot' = "system"
    /\ UNCHANGED <<running, tick, arg, ret, gc_todo, victim>>

\* lines 41-44: the System task, which is the code that is running
tasking_initialize_system ==
    /\ boot = "system"
    /\ SetWorld(task_go_body(task_spawn(World, SystemSlot, FALSE), SystemSlot))
    /\ running' = SystemSlot
    /\ pc' = [pc EXCEPT ![SystemSlot] = "ready"]
    /\ boot' = "gc"
    /\ UNCHANGED <<tick, arg, ret, gc_todo, victim>>

\* lines 46-47: the garbage collector
tasking_initialize_gc ==
    /\ boot = "gc"
    /\ SetWorld(task_go_body(task_spawn(World, GcSlot, FALSE), GcSlot))
    /\ pc' = [pc EXCEPT ![GcSlot] = "gc_sleep"]
    /\ boot' = "start"
    /\ UNCHANGED <<running, tick, arg, ret, gc_todo, victim>>

\* The start-up code turns interrupts on: scheduling begins.
kernel_start ==
    /\ boot = "start"
    /\ SetWorld(atomic_end(World))
    /\ boot' = "done"
    /\ UNCHANGED <<running, tick, pc, arg, ret, gc_todo, victim>>

\* ----------------------------------------------------------------- actions
CanStep(s) == boot = "done" /\ ~panic /\ running = s /\ heap[s] = "live"

Ready(s) == CanStep(s) /\ s \in Actors /\ pc[s] = "ready"

\* The tasks the callers of this layer pass to task_go and task_cancel.
Targets == Range(all_tasks) \cap UserSlots

\* The exit value the task of this id was last cancelled with (0: none).
CancelledWith(id) ==
    LET ts == {t \in Slots : heap[t] # "unused" /\ task[t].id = id}
    IN  IF ts = {} THEN 0 ELSE task[CHOOSE t \in ts : TRUE].exit_value

task_spawn_with_argv(s) ==
    /\ Ready(s)
    /\ Cardinality({t \in UserSlots : heap[t] = "live"}) < MaxUserTasks
    /\ \E n \in Slots :
        /\ heap[n] = "unused"
        /\ \A m \in Slots : m < n => heap[m] # "unused"
        /\ \E user \in BOOLEAN : SetWorld(task_spawn_with_argv_body(World, n, user))
        /\ pc' = [pc EXCEPT ![n] = "ready"]
    /\ ret' = Return(s, "SUCCESS")
    /\ UNCHANGED <<running, tick, arg, gc_todo, victim, boot>>

task_go(s) ==
    /\ Ready(s)
    /\ \E t \in Targets \ {s} : SetWorld(task_go_body(World, t))
    /\ ret' = Return(s, "SUCCESS")
    /\ UNCHANGED <<running, tick, pc, arg, gc_todo, victim, boot>>

\* s calls task_cancel on one of the tasks ts with one of the values vs
task_cancel_by(s, ts, vs) ==
    /\ Ready(s)
    /\ \E t \in Targets \cap ts, v \in vs : SetWorld(task_cancel_body(World, t, v))
    /\ ret' = Return(s, "SUCCESS")
    /\ UNCHANGED <<running, tick, pc, arg, gc_todo, victim, boot>>

task_cancel(s) == task_cancel_by(s, Slots, ExitValues)

\* task_exit up to its scheduler_yield
task_exit(s) ==
    /\ Ready(s)
    /\ s \in UserSlots
    /\ \E v \in ExitValues : SetWorld(task_cancel_body(World, s, v))
    /\ pc' = [pc EXCEPT ![s] = "exit_yield"]
    /\ ret' = NoRet
    /\ UNCHANGED <<running, tick, arg, gc_todo, victim, boot>>

\* ASSERT_NOT_REACHED, when the task that exited is dispatched again
task_exit_returned(s) ==
    /\ CanStep(s)
    /\ pc[s] = "exit_unreachable"
    /\ SetWorld([World EXCEPT !.panic = TRUE])
    /\ ret' = NoRet
    /\ UNCHANGED <<running, tick, pc, arg, gc_todo, victim, boot>>

\* Where a task continues when task_block has returned.
AfterBlock(s) == IF s = GcSlot THEN "gc_sweep" ELSE "ready"

\* What task_sleep and task_wait return when task_block has returned; W is the
\* state at that moment.
BlockReturn(W, s, kind) ==
    IF kind = "wait"
    THEN [NoRet EXCEPT !.task = s, !.code = "SUCCESS", !.id = arg[s].id,
                       !.out = W.out[s], !.expect = arg[s].expect]
    ELSE [Return(s, "TIMEOUT") EXCEPT !.op = "sleep"]

\* The caller's frame is gone once task_wait has returned.
PopFrame(W, s) == [W EXCEPT !.out[s] = UNSET]

\* A call of task_sleep with timeout n at the current tick.
SleepFrame(n) == [NoArg EXCEPT !.op = "sleep", !.since = tick, !.timeout = n]

\* s calls task_block(s, b, -1) from the frame a
TaskBlock(s, b, a) ==
    \E g \in [Dangling(World, {b}) -> GarbageReads] :
        LET r == task_block(World, s, b, -1, tick, g)
        IN  IF r.fast
            THEN /\ SetWorld(PopFrame(r.world, s))
                 /\ pc' = [pc EXCEPT ![s] = AfterBlock(s)]
                 /\ ret' = [BlockReturn(r.world, s, b.kind) EXCEPT
                               !.block = r.result, !.calls = r.calls]
                 /\ arg' = [arg EXCEPT ![s] = NoArg]
            ELSE /\ SetWorld(r.world)
                 /\ pc' = [pc EXCEPT ![s] = IF r.world.panic THEN @ ELSE "block_yield"]
                 /\ ret' = NoRet
                 /\ arg' = [arg EXCEPT ![s] = a]

task_sleep(s) ==
    /\ Ready(s)
    /\ \E n \in SleepTimes :
          TaskBlock(s, blocker_time_create(tick + n), SleepFrame(n))
    /\ UNCHANGED <<running, tick, gc_todo, victim, boot>>

\* task_wait, lines 260-270
task_wait(s) ==
    /\ Ready(s)
    /\ \E id \in WaitIds :
        LET r == task_wait_lookup(World, id)
        IN  /\ SetWorld(r.world)
            /\ IF r.task = NULL
               THEN /\ ret' = [Return(s, "ERR_NO_SUCH_TASK") EXCEPT
                                !.id = id, !.expect = CancelledWith(id)]
                    /\ pc' = pc
                    /\ arg' = arg
               ELSE /\ ret' = NoRet
                    /\ pc' = [pc EXCEPT ![s] = "wait_block"]
                    /\ arg' = [arg EXCEPT ![s] =
                                [NoArg EXCEPT !.id = id, !.task = r.task,
                                              !.expect = CancelledWith(id)]]
    /\ UNCHANGED <<running, tick, gc_todo, victim, boot>>

\* task_wait, lines 272-276
task_wait_block(s) ==
    /\ CanStep(s)
    /\ pc[s] = "wait_block"
    /\ TaskBlock(s, blocker_wait_create(arg[s].task), arg[s])
    /\ UNCHANGED <<running, tick, gc_todo, victim, boot>>

\* scheduler_yield in task_block and in task_exit
scheduler_yield(s) ==
    /\ CanStep(s)
    /\ atomic_depth = 0
    /\ pc[s] \in {"block_yield", "exit_yield"}
    /\ running' \in scheduler_pick(World)
    /\ pc' = [pc EXCEPT ![s] =
                IF @ = "block_yield" THEN "block_resume" ELSE "exit_unreachable"]
    /\ SetWorld(World)
    /\ ret' = NoRet
    /\ UNCHANGED <<tick, arg, gc_todo, victim, boot>>

\* task_block, lines 315-320: after the yield
task_block_resume(s) ==
    /\ CanStep(s)
    /\ pc[s] = "block_resume"
    /\ LET W == [World EXCEPT !.task[s].blocker = NULL, !.blk[s] = NoBlocker]
       IN  /\ SetWorld(PopFrame(W, s))
           /\ ret' = BlockReturn(W, s, blk[s].kind)
    /\ pc' = [pc EXCEPT ![s] = AfterBlock(s)]
    /\ arg' = [arg EXCEPT ![s] = NoArg]
    /\ UNCHANGED <<running, tick, gc_todo, victim, boot>>

\* The timer interrupt: k ticks pass (k > 1: the interrupted task makes no
\* step between them), the scheduler polls the blockers and dispatches.
\* Time is followed for MaxBusyTicks ticks from the start of each garbage
\* collector period, and passes in one step over the rest of the period.
TickSteps ==
    {k \in 1 .. GC_INTERVAL :
        /\ tick + k <= MaxTick
        /\ (tick + k) % GC_INTERVAL <= MaxBusyTicks
        /\ \/ k = 1
           \/ \E b \in InstalledBlockers(World) :
                 b.kind = "time" /\ b.deadline > tick /\ b.deadline <= tick + k}

timer_interrupt ==
    /\ boot = "done"
    /\ ~panic
    /\ atomic_depth = 0
    /\ \E k \in TickSteps :
        /\ tick' = tick + k
        /\ \E g \in [Dangling(World, InstalledBlockers(World)) -> GarbageReads] :
            LET W == atomic_end(wakeup_blocked(atomic_begin(World), all_tasks,
                                               tick + k, g))
            IN  /\ SetWorld(W)
                /\ running' \in scheduler_pick(W)
    /\ ret' = NoRet
    /\ UNCHANGED <<pc, arg, gc_todo, victim, boot>>

\* ------------------------------------------------------- garbage collector
\* task_sleep(scheduler_running(), 100)
garbage_collector_sleep(s) ==
    /\ CanStep(s)
    /\ s = GcSlot
    /\ pc[s] = "gc_sleep"
    /\ TaskBlock(s, blocker_time_create(tick + GC_INTERVAL), SleepFrame(GC_INTERVAL))
    /\ UNCHANGED <<running, tick, gc_todo, victim, boot>>

\* atomic_begin and the start of list_iterate
garbage_collector_sweep(s) ==
    /\ CanStep(s)
    /\ pc[s] = "gc_sweep"
    /\ SetWorld(atomic_begin(World))
    /\ gc_todo' = all_tasks
    /\ pc' = [pc EXCEPT ![s] = "gc_iterate"]
    /\ ret' = NoRet
    /\ UNCHANGED <<running, tick, arg, victim, boot>>

\* one callback of list_iterate; task_destroy up to its atomic_end
destroy_task_if_canceled(s) ==
    /\ CanStep(s)
    /\ pc[s] = "gc_iterate"
    /\ gc_todo # <<>>
    /\ LET t == Head(gc_todo)
       IN  IF task[t].state = "CANCELED"
           THEN /\ SetWorld(task_destroy_unregister(World, t))
                /\ victim' = t
                /\ pc' = [pc EXCEPT ![s] = "destroy_mappings"]
                /\ gc_todo' = gc_todo
           ELSE /\ SetWorld(World)
                /\ gc_todo' = Tail(gc_todo)
                /\ UNCHANGED <<pc, victim>>
    /\ ret' = NoRet
    /\ UNCHANGED <<running, tick, arg, boot>>

\* task_destroy, lines 118-123: one turn of the loop, or its end.  The
\* interrupts are off, so lock_acquire spins for ever when a task that was
\* preempted holds the lock.
task_destroy_mappings(s) ==
    /\ CanStep(s)
    /\ pc[s] = "destroy_mappings"
    /\ IF memory_mapping[victim] = <<>>
       THEN /\ SetWorld(World)
            /\ pc' = [pc EXCEPT ![s] = "destroy_free"]
       ELSE /\ memory_objects_lock = NULL
            /\ \E g \in GarbageCounts :
                  SetWorld(task_memory_mapping_destroy(
                      World, victim, Head(memory_mapping[victim]), g))
            /\ pc' = pc
    /\ ret' = NoRet
    /\ UNCHANGED <<running, tick, arg, gc_todo, victim, boot>>

\* task_destroy, lines 125-137; lock_acquire spins for ever, the interrupts
\* being off, when a task holds the cwd lock
task_destroy_free(s) ==
    /\ CanStep(s)
    /\ pc[s] = "destroy_free"
    /\ cwd_lock[victim] = NULL
    /\ SetWorld(task_destroy_release(World, victim))
    /\ victim' = NULL
    /\ gc_todo' = Tail(gc_todo)
    /\ pc' = [pc EXCEPT ![s] = "gc_iterate"]
    /\ ret' = NoRet
    /\ UNCHANGED <<running, tick, arg, boot>>

\* the end of list_iterate and atomic_end
garbage_collector_sweep_end(s) ==
    /\ CanStep(s)
    /\ pc[s] = "gc_iterate"
    /\ gc_todo = <<>>
    /\ SetWorld(atomic_end(World))
    /\ pc' = [pc EXCEPT ![s] = "gc_sleep"]
    /\ ret' = NoRet
    /\ UNCHANGED <<running, tick, arg, gc_todo, victim, boot>>

\* --------------------------------------------------------- specifications
Next ==
    \/ tasking_initialize_idle
    \/ tasking_initialize_system
    \/ tasking_initialize_gc
    \/ kernel_start
    \/ \E s \in Slots : task_spawn_with_argv(s)
    \/ \E s \in Slots : task_go(s)
    \/ \E s \in Slots : task_cancel(s)
    \/ \E s \in Slots : task_exit(s)
    \/ \E s \in Slots : task_exit_returned(s)
    \/ \E s \in Slots : task_sleep(s)
    \/ \E s \in Slots : task_wait(s)
    \/ \E s \in Slots : task_wait_block(s)
    \/ \E s \in Slots : scheduler_yield(s)
    \/ \E s \in Slots : task_block_resume(s)
    \/ timer_interrupt
    \/ \E s \in Slots : garbage_collector_sleep(s)
    \/ \E s \in Slots : garbage_collector_sweep(s)
    \/ \E s \in Slots : destroy_task_if_canceled(s)
    \/ \E s \in Slots : task_destroy_mappings(s)
    \/ \E s \in Slots : task_destroy_free(s)
    \/ \E s \in Slots : garbage_collector_sweep_end(s)

Spec == Init /\ [][Next]_vars

\* ---------------------------------------------------- shared memory actions
\* The addresses a task passes: the bases of its mappings, an address inside
\* each of them, and one that is not mapped when it has no mapping.
UserAddresses(s) ==
    LET bases == {memory_mapping[s][i].address : i \in 1 .. Len(memory_mapping[s])}
    IN  IF bases = {} THEN {PAGE_SIZE} ELSE bases \cup {a + 1 : a \in bases}

ShmReturn(s, code, op) == [Return(s, code) EXCEPT !.op = op]

ShmUnchanged == UNCHANGED <<running, tick, gc_todo, victim, boot>>

\* task_shared_memory_alloc up to memory_object_create's read of
\* _memory_object_id (line 504; the increment is a read and a write)
task_shared_memory_alloc(s) ==
    /\ Ready(s)
    /\ s \in UserSlots
    /\ Len(memory_mapping[s]) < MaxMappings
    /\ \E o \in ObjectSlots : object[o].alloc = "unused"
    /\ \E size \in Sizes :
        LET o == memory_object_alloc(World)
        IN  /\ SetWorld([World EXCEPT !.object[o].alloc = "live",
                                      !.object[o].creator = s])
            /\ arg' = [arg EXCEPT ![s] =
                        [NoArg EXCEPT !.op = "alloc", !.object = o,
                                      !.id = memory_object_id,
                                      !.size = PAGE_ALIGN_UP(size)]]
    /\ pc' = [pc EXCEPT ![s] = "create_store"]
    /\ ret' = NoRet
    /\ ShmUnchanged

\* memory_object_create, lines 504-507: the write of _memory_object_id
memory_object_create_store(s) ==
    /\ CanStep(s)
    /\ pc[s] = "create_store"
    /\ SetWorld(memory_object_create(World, arg[s].object, arg[s].id, arg[s].size))
    /\ pc' = [pc EXCEPT ![s] = "create_lock"]
    /\ ret' = NoRet
    /\ arg' = arg
    /\ ShmUnchanged

\* memory_object_create, line 509
memory_object_create_lock(s) ==
    /\ CanStep(s)
    /\ pc[s] = "create_lock"
    /\ memory_objects_lock = NULL
    /\ SetWorld(lock_acquire(World, s))
    /\ pc' = [pc EXCEPT ![s] = "create_pushback"]
    /\ ret' = NoRet
    /\ arg' = arg
    /\ ShmUnchanged

\* memory_object_create, lines 510-511
memory_object_create_pushback(s) ==
    /\ CanStep(s)
    /\ pc[s] = "create_pushback"
    /\ SetWorld(lock_release(
            [World EXCEPT !.memory_objects = Append(@, arg[s].object)]))
    /\ pc' = [pc EXCEPT ![s] = "mapping_create"]
    /\ ret' = NoRet
    /\ arg' = arg
    /\ ShmUnchanged

\* task_memory_mapping_create; only the task itself reads its mapping list
\* while it runs, so the reference and the pushback are one step
task_memory_mapping_create(s) ==
    /\ CanStep(s)
    /\ pc[s] = "mapping_create"
    /\ LET o == arg[s].object
           m == [object |-> o,
                 address |-> virtual_alloc(World, s, object[o].size),
                 size |-> object[o].size]
           W == memory_object_ref(World, o)
       IN  /\ SetWorld([W EXCEPT !.memory_mapping[s] = Append(@, m)])
           /\ arg' = [arg EXCEPT ![s].address = m.address, ![s].size = m.size]
    /\ pc' = [pc EXCEPT ![s] = "deref_lock"]
    /\ ret' = NoRet
    /\ ShmUnchanged

\* memory_object_deref, line 533
memory_object_deref_lock(s) ==
    /\ CanStep(s)
    /\ pc[s] = "deref_lock"
    /\ memory_objects_lock = NULL
    /\ SetWorld(lock_acquire(World, s))
    /\ pc' = [pc EXCEPT ![s] = "deref"]
    /\ ret' = NoRet
    /\ arg' = arg
    /\ ShmUnchanged

\* memory_object_deref, lines 535-540, and what follows it in the caller:
\* the return of alloc and include, the list_remove of mapping_destroy
memory_object_deref_unlock(s) ==
    /\ CanStep(s)
    /\ pc[s] = "deref"
    /\ \E g \in GarbageCounts :
          SetWorld(lock_release(memory_object_deref(World, arg[s].object, g)))
    /\ IF arg[s].op = "free"
       THEN /\ pc' = [pc EXCEPT ![s] = "mapping_remove"]
            /\ ret' = NoRet
            /\ arg' = arg
       ELSE /\ pc' = [pc EXCEPT ![s] = "ready"]
            /\ ret' = [ShmReturn(s, "SUCCESS", arg[s].op) EXCEPT
                            !.handle = arg[s].handle,
                            !.address = arg[s].address,
                            !.size = arg[s].size,
                            !.peer = arg[s].peer]
            /\ arg' = [arg EXCEPT ![s] = NoArg]
    /\ ShmUnchanged

\* task_shared_memory_free up to memory_object_deref's lock_acquire
task_shared_memory_free(s) ==
    /\ Ready(s)
    /\ s \in UserSlots
    /\ \E address \in UserAddresses(s) :
        LET m == task_memory_mapping_by_address(World, s, address)
        IN  IF m = NoMapping
            THEN /\ ret' = [ShmReturn(s, "ERR_BAD_ADDRESS", "free") EXCEPT
                                !.address = address]
                 /\ UNCHANGED <<pc, arg>>
            ELSE /\ ret' = NoRet
                 /\ pc' = [pc EXCEPT ![s] = "deref_lock"]
                 /\ arg' = [arg EXCEPT ![s] =
                                [NoArg EXCEPT !.op = "free", !.object = m.object,
                                              !.address = m.address,
                                              !.size = m.size]]
    /\ SetWorld(World)
    /\ ShmUnchanged

\* task_memory_mapping_destroy, lines 583-584, and the return of free
task_memory_mapping_destroy_remove(s) ==
    /\ CanStep(s)
    /\ pc[s] = "mapping_remove"
    /\ SetWorld([World EXCEPT !.memory_mapping[s] =
                    list_remove(@, [object |-> arg[s].object,
                                    address |-> arg[s].address,
                                    size |-> arg[s].size])])
    /\ pc' = [pc EXCEPT ![s] = "ready"]
    /\ ret' = [ShmReturn(s, "SUCCESS", "free") EXCEPT !.address = arg[s].address]
    /\ arg' = [arg EXCEPT ![s] = NoArg]
    /\ ShmUnchanged

\* A task is destroying the mapping.
Unmapping(t, m) ==
    /\ arg[t].op = "free"
    /\ arg[t].address = m.address
    /\ pc[t] \in {"deref_lock", "deref", "mapping_remove"}

\* Task t has the object mapped, has allocated it, and its handle is h.
MapsOwn(t, o, h) ==
    /\ heap[t] = "live"
    /\ object[o].alloc = "live"
    /\ object[o].creator = t
    /\ object[o].id = h
    /\ \E i \in 1 .. Len(memory_mapping[t]) :
          memory_mapping[t][i].object = o /\ ~Unmapping(t, memory_mapping[t][i])

\* The objects of handle h that a task other than s has allocated and has
\* mapped, or NULL when there is none.
Peers(s, h) ==
    LET os == {o \in ObjectSlots : \E t \in UserSlots \ {s} : MapsOwn(t, o, h)}
    IN  IF os = {} THEN {NULL} ELSE os

\* task_shared_memory_include up to memory_object_by_id's lock_acquire
task_shared_memory_include(s) ==
    /\ Ready(s)
    /\ s \in UserSlots
    /\ Len(memory_mapping[s]) < MaxMappings
    /\ memory_objects_lock = NULL
    /\ SetWorld(lock_acquire(World, s))
    /\ \E handle \in Handles : \E peer \in Peers(s, handle) :
          arg' = [arg EXCEPT ![s] = [NoArg EXCEPT !.op = "include",
                                                   !.handle = handle,
                                                   !.peer = peer]]
    /\ pc' = [pc EXCEPT ![s] = "by_id"]
    /\ ret' = NoRet
    /\ ShmUnchanged

\* memory_object_by_id, lines 547-560, and include's test of what it returns
memory_object_by_id_scan(s) ==
    /\ CanStep(s)
    /\ pc[s] = "by_id"
    /\ LET r == memory_object_by_id(World, arg[s].handle)
       IN  /\ SetWorld(lock_release(r.world))
           /\ IF r.object = NULL
              THEN /\ ret' = [ShmReturn(s, "ERR_BAD_ADDRESS", "include") EXCEPT
                                    !.handle = arg[s].handle]
                   /\ pc' = [pc EXCEPT ![s] = "ready"]
                   /\ arg' = [arg EXCEPT ![s] = NoArg]
              ELSE /\ ret' = NoRet
                   /\ pc' = [pc EXCEPT ![s] = "mapping_create"]
                   /\ arg' = [arg EXCEPT ![s].object = r.object]
    /\ ShmUnchanged

\* task_shared_memory_get_handle; the id read through a mapping whose object
\* has been freed is whatever the freed memory holds
task_shared_memory_get_handle(s) ==
    /\ Ready(s)
    /\ s \in UserSlots
    /\ \E address \in UserAddresses(s) :
        LET m == task_memory_mapping_by_address(World, s, address)
        IN  IF m = NoMapping
            THEN ret' = [ShmReturn(s, "ERR_BAD_ADDRESS", "get_handle") EXCEPT
                            !.address = address]
            ELSE \E h \in Handles :
                    /\ object[m.object].alloc = "live" => h = object[m.object].id
                    /\ ret' = [ShmReturn(s, "SUCCESS", "get_handle") EXCEPT
                                    !.address = address, !.handle = h]
    /\ SetWorld(World)
    /\ UNCHANGED <<pc, arg>>
    /\ ShmUnchanged

\* The garbage collector has gone to sleep at tick 1, then the System task has
\* spawned two user tasks and called task_go on each, and the timer interrupt
\* of tick 2 has dispatched the first of them.
InitShm ==
    /\ TID = MaxTasks
    /\ all_tasks = [i \in 1 .. MaxTasks |-> i - 1]
    /\ task = [s \in Slots |->
                [id |-> s,
                 state |-> IF s = IdleSlot THEN "HANG"
                           ELSE IF s = GcSlot THEN "BLOCKED" ELSE "RUNNING",
                 blocker |-> IF s = GcSlot THEN s ELSE NULL,
                 exit_value |-> 0]]
    /\ heap = [s \in Slots |-> "live"]
    /\ blk = [s \in Slots |->
                IF s = GcSlot THEN blocker_time_create(1 + GC_INTERVAL)
                ELSE NoBlocker]
    /\ out = [s \in Slots |-> UNSET]
    /\ sched = <<>>
    /\ atomic_depth = 0
    /\ panic = FALSE
    /\ running = FirstUserSlot
    /\ tick = 2
    /\ pc = [s \in Slots |->
                IF s = IdleSlot THEN "hang"
                ELSE IF s = GcSlot THEN "block_resume" ELSE "ready"]
    /\ arg = [s \in Slots |->
                IF s = GcSlot
                THEN [NoArg EXCEPT !.op = "sleep", !.since = 1,
                                   !.timeout = GC_INTERVAL]
                ELSE NoArg]
    /\ boot = "done"
    /\ ret = NoRet
    /\ gc_todo = <<>>
    /\ victim = NULL
    /\ memory_object_id = 0
    /\ memory_objects = <<>>
    /\ memory_objects_lock = NULL
    /\ object = [o \in ObjectSlots |-> NoObject]
    /\ memory_mapping = [s \in Slots |-> <<>>]
    /\ pdir = [s \in Slots |->
                IF s \in UserSlots THEN memory_pdir_create(s) ELSE memory_kpdir]
    /\ pdir_destroyed = [d \in PageDirectories |-> 0]
    /\ cwd_path = [s \in Slots |-> <<>>]
    /\ cwd_lock = [s \in Slots |-> NULL]
    /\ fsnode_refs = [n \in FsNodes |-> 0]
    /\ asserted = <<>>

NextShm ==
    \/ \E s \in Slots : task_shared_memory_alloc(s)
    \/ \E s \in Slots : memory_object_create_store(s)
    \/ \E s \in Slots : memory_object_create_lock(s)
    \/ \E s \in Slots : memory_object_create_pushback(s)
    \/ \E s \in Slots : task_memory_mapping_create(s)
    \/ \E s \in Slots : memory_object_deref_lock(s)
    \/ \E s \in Slots : memory_object_deref_unlock(s)
    \/ \E s \in Slots : task_shared_memory_free(s)
    \/ \E s \in Slots : task_memory_mapping_destroy_remove(s)
    \/ \E s \in Slots : task_shared_memory_include(s)
    \/ \E s \in Slots : memory_object_by_id_scan(s)
    \/ \E s \in Slots : task_shared_memory_get_handle(s)
    \/ task_cancel_by(SystemSlot, {FirstUserSlot}, {7})
    \/ \E s \in Slots : scheduler_yield(s)
    \/ \E s \in Slots : task_block_resume(s)
    \/ timer_interrupt
    \/ \E s \in Slots : garbage_collector_sleep(s)
    \/ \E s \in Slots : garbage_collector_sweep(s)
    \/ \E s \in Slots : destroy_task_if_canceled(s)
    \/ \E s \in Slots : task_destroy_mappings(s)
    \/ \E s \in Slots : task_destroy_free(s)
    \/ \E s \in Slots : garbage_collector_sweep_end(s)

\* Shared memory: two user tasks run the shared-memory operations, the
\* System task may cancel the first of them, the garbage collector reaps it.
SpecShm == InitShm /\ [][NextShm]_vars

\* ------------------------------------------- current working directory
\* path_create: a buffer that does not start with the separator is relative.
path_create(buffer) ==
    [relative |-> buffer = <<>> \/ Head(buffer) # "/",
     names |-> SelectSeq(buffer, LAMBDA e : e # "/")]

path_is_relative(path) == path.relative

path_combine(left, path) == [relative |-> FALSE, names |-> left \o path.names]

RECURSIVE NormalizeOnto(_, _)
NormalizeOnto(done, names) ==
    IF names = <<>> THEN done
    ELSE IF Head(names) = ".."
    THEN NormalizeOnto(IF done = <<>> THEN <<>>
                       ELSE SubSeq(done, 1, Len(done) - 1), Tail(names))
    ELSE NormalizeOnto(Append(done, Head(names)), Tail(names))

path_normalize(path) == NormalizeOnto(<<>>, path.names)

\* The node of a path, NULL when there is none.
filesystem_find(names) ==
    IF names = <<>> THEN 0
    ELSE IF names = <<"a">> THEN 1
    ELSE IF names = <<"f">> THEN 2
    ELSE IF names = <<"a", "f">> THEN 3
    ELSE NULL

FsNodeType(node) == IF node \in {0, 1} THEN "FILE_TYPE_DIRECTORY" ELSE "FILE_TYPE_REGULAR"

filesystem_find_and_ref(W, names) ==
    LET node == filesystem_find(names)
    IN  IF node = NULL THEN W ELSE [W EXCEPT !.fsnode_refs[node] = @ + 1]

fsnode_deref(W, node) == [W EXCEPT !.fsnode_refs[node] = @ - 1]

task_set_cwd_cleanup_no_deref(W, node) == W

\* task_set_cwd, lines 461-466
task_set_cwd_cleanup(W, node) ==
    IF node # NULL THEN fsnode_deref(W, node) ELSE W

\* task_set_cwd, lines 439-453: the lookup, the two refusals and, for a
\* directory, the acquisition of the lock
task_set_cwd_find(W, t, names) ==
    LET node == filesystem_find(names)
        W1 == filesystem_find_and_ref(W, names)
    IN  IF node = NULL
        THEN [world |-> task_set_cwd_cleanup(W1, node), node |-> node,
              result |-> "ERR_NO_SUCH_FILE_OR_DIRECTORY"]
        ELSE IF FsNodeType(node) # "FILE_TYPE_DIRECTORY"
        THEN [world |-> task_set_cwd_cleanup(W1, node), node |-> node,
              result |-> "ERR_NOT_A_DIRECTORY"]
        ELSE [world |-> [W1 EXCEPT !.cwd_lock[t] = running], node |-> node,
              result |-> "SUCCESS"]

task_set_cwd_swap_keep_lock(W, t, names, node) ==
    task_set_cwd_cleanup([W EXCEPT !.cwd_path[t] = names], node)

\* task_set_cwd, lines 455-466
task_set_cwd_swap(W, t, names, node) ==
    task_set_cwd_cleanup(
        [W EXCEPT !.cwd_path[t] = names, !.cwd_lock[t] = NULL], node)

CwdReturn(s, code) == [Return(s, code) EXCEPT !.op = "set_cwd"]

CwdUnchanged == UNCHANGED <<running, tick, gc_todo, victim, boot>>

\* task_set_cwd(scheduler_running(), buffer) up to the first lock_acquire of
\* task_cwd_resolve (lines 416-420), or to line 429 for an absolute path
task_set_cwd(s) ==
    /\ Ready(s)
    /\ s \in UserSlots
    /\ \E buffer \in Buffers :
          LET path == path_create(buffer)
          IN  IF path_is_relative(path)
              THEN /\ cwd_lock[s] = NULL
                   /\ SetWorld([World EXCEPT !.cwd_lock[s] = s])
                   /\ pc' = [pc EXCEPT ![s] = "cwd_resolve"]
                   /\ arg' = [arg EXCEPT ![s] =
                                [NoArg EXCEPT !.op = "set_cwd",
                                              !.path = path.names]]
              ELSE /\ SetWorld(World)
                   /\ pc' = [pc EXCEPT ![s] = "cwd_lookup"]
                   /\ arg' = [arg EXCEPT ![s] =
                                [NoArg EXCEPT !.op = "set_cwd",
                                              !.path = path_normalize(path)]]
    /\ ret' = NoRet
    /\ CwdUnchanged

\* task_cwd_resolve, lines 422-429
task_cwd_resolve(s) ==
    /\ CanStep(s)
    /\ pc[s] = "cwd_resolve"
    /\ SetWorld([World EXCEPT !.cwd_lock[s] = NULL])
    /\ pc' = [pc EXCEPT ![s] = "cwd_lookup"]
    /\ arg' = [arg EXCEPT ![s].path =
                 path_normalize(path_combine(cwd_path[s],
                     [relative |-> TRUE, names |-> arg[s].path]))]
    /\ ret' = NoRet
    /\ CwdUnchanged

\* task_set_cwd, lines 439-453, and lines 461-468 when the path is refused
task_set_cwd_lookup(s) ==
    /\ CanStep(s)
    /\ pc[s] = "cwd_lookup"
    /\ LET r == task_set_cwd_find(World, s, arg[s].path)
       IN  IF r.result = "SUCCESS"
           THEN /\ cwd_lock[s] = NULL
                /\ SetWorld(r.world)
                /\ pc' = [pc EXCEPT ![s] = "cwd_store"]
                /\ arg' = [arg EXCEPT ![s].node = r.node]
                /\ ret' = NoRet
           ELSE /\ SetWorld(r.world)
                /\ pc' = [pc EXCEPT ![s] = "ready"]
                /\ arg' = [arg EXCEPT ![s] = NoArg]
                /\ ret' = CwdReturn(s, r.result)
    /\ CwdUnchanged

\* task_set_cwd, lines 455-468
task_set_cwd_store(s) ==
    /\ CanStep(s)
    /\ pc[s] = "cwd_store"
    /\ SetWorld(task_set_cwd_swap(World, s, arg[s].path, arg[s].node))
    /\ pc' = [pc EXCEPT ![s] = "ready"]
    /\ arg' = [arg EXCEPT ![s] = NoArg]
    /\ ret' = CwdReturn(s, "SUCCESS")
    /\ CwdUnchanged

\* task_get_cwd, line 473
task_get_cwd(s) ==
    /\ Ready(s)
    /\ s \in UserSlots
    /\ cwd_lock[s] = NULL
    /\ SetWorld([World EXCEPT !.cwd_lock[s] = s])
    /\ pc' = [pc EXCEPT ![s] = "cwd_get"]
    /\ arg' = [arg EXCEPT ![s] = [NoArg EXCEPT !.op = "get_cwd"]]
    /\ ret' = NoRet
    /\ CwdUnchanged

\* task_get_cwd, lines 475-479
task_get_cwd_copy(s) ==
    /\ CanStep(s)
    /\ pc[s] = "cwd_get"
    /\ SetWorld([World EXCEPT !.cwd_lock[s] = NULL])
    /\ pc' = [pc EXCEPT ![s] = "ready"]
    /\ arg' = [arg EXCEPT ![s] = NoArg]
    /\ ret' = [Return(s, "SUCCESS") EXCEPT !.op = "get_cwd"]
    /\ CwdUnchanged

NextCwd ==
    \/ \E s \in Slots : task_set_cwd(s)
    \/ \E s \in Slots : task_cwd_resolve(s)
    \/ \E s \in Slots : task_set_cwd_lookup(s)
    \/ \E s \in Slots : task_set_cwd_store(s)
    \/ \E s \in Slots : task_get_cwd(s)
    \/ \E s \in Slots : task_get_cwd_copy(s)
    \/ \E s \in Slots : task_sleep(s)
    \/ \E s \in Slots : task_exit(s)
    \/ task_cancel_by(SystemSlot, {FirstUserSlot}, {7})
    \/ \E s \in Slots : scheduler_yield(s)
    \/ \E s \in Slots : task_block_resume(s)
    \/ timer_interrupt
    \/ \E s \in Slots : garbage_collector_sleep(s)
    \/ \E s \in Slots : garbage_collector_sweep(s)
    \/ \E s \in Slots : destroy_task_if_canceled(s)
    \/ \E s \in Slots : task_destroy_mappings(s)
    \/ \E s \in Slots : task_destroy_free(s)
    \/ \E s \in Slots : garbage_collector_sweep_end(s)

\* Working directories: two user tasks change and read their working
\* directories, sleep and exit, the System task may cancel the first of them,
\* the garbage collector reaps the cancelled.
SpecCwd == InitShm /\ [][NextCwd]_vars

\* ------------------------------------------------------------------ claims
Live == {t \in Slots : heap[t] = "live"}

InTaskBlock(t) == pc[t] \in {"block_yield", "block_resume"}

\* C1 (as stated): in every reachable state, every task has a blocker set if
\* and only if its state is BLOCKED.
C1_BlockerIffBlocked ==
    \A t \in Live : (task[t].blocker # NULL) <=> (task[t].state = "BLOCKED")

\* C1 (amended): a BLOCKED task has its blocker set, and a task's blocker is
\* set exactly while the task is inside task_block, from the installation to
\* the clearing of the slot after the resume.
C1_BlockedHasBlocker ==
    \A t \in Live :
        /\ task[t].state = "BLOCKED" => task[t].blocker # NULL
        /\ task[t].blocker # NULL <=> InTaskBlock(t)

\* C1: a task blocked in task_block that task_cancel has been applied to.
C1_Witness ==
    \E t \in Live :
        /\ task[t].state = "CANCELED"
        /\ task[t].blocker # NULL
        /\ pc[t] = "block_resume"

\* No two tasks of the registry have the same id.
RegistryIdsDiffer ==
    \A i, j \in 1 .. Len(all_tasks) :
        i # j => task[all_tasks[i]].id # task[all_tasks[j]].id

\* C3: two tasks of the registry never share an id, and a task that is
\* created gets an id greater than every id given out before, those of the
\* destroyed tasks included.
C3_IdsUniqueAndIncreasing ==
    /\ []RegistryIdsDiffer
    /\ [][\A n \in Slots :
            (heap[n] = "unused" /\ heap'[n] = "live") =>
                \A m \in Slots : heap[m] # "unused" => task'[n].id > task[m].id]_vars

\* C3: a task created after another one was destroyed.
C3_Witness ==
    \E t, u \in Slots :
        /\ heap[t] = "freed"
        /\ heap[u] = "live"
        /\ task[u].id > task[t].id

\* C4: a destroyed task is not in the registry and task_by_id of its id
\* finds nothing, in every later state.
C4_DestroyedIsGone ==
    \A t \in Slots :
        heap[t] = "freed" =>
            /\ t \notin Range(all_tasks)
            /\ task_by_id(World, task[t].id) = NULL

\* C4: a task was destroyed and the registry has grown again since.
C4_Witness ==
    \E t, u \in Slots :
        /\ heap[t] = "freed"
        /\ u \in UserSlots
        /\ u \in Range(all_tasks)

\* C5 (as stated): a task that is CANCELED is not RUNNING in any later state;
\* here: no step takes a task from CANCELED to RUNNING.
C5_CanceledNeverRunning ==
    [][\A t \in Slots :
          (heap[t] = "live" /\ task[t].state = "CANCELED")
              => task'[t].state # "RUNNING"]_vars

\* The entries of the step's scheduler log that are about task t.
NotesOf(t) == {i \in 1 .. Len(sched') : sched'[i].task = t}

\* C6: every change of a task's state is reported to the scheduler exactly
\* once, before it is made: the reports of a step about a task each carry the
\* state the task is in when the report is issued, start from the state the
\* task had before the step, follow one another, and end in the state the task
\* has after the step; a step that reports nothing changes no state.
C6_NotifiedBeforeChange ==
    [][\A t \in Slots :
          /\ \A i \in NotesOf(t) :
                /\ sched'[i].seen = sched'[i].old
                /\ sched'[i].old =
                      IF \E j \in NotesOf(t) : j < i
                      THEN sched'[CHOOSE j \in NotesOf(t) :
                                    j < i /\ \A k \in NotesOf(t) : k < i => k <= j].new
                      ELSE task[t].state
          /\ task'[t].state =
                IF NotesOf(t) = {} THEN task[t].state
                ELSE sched'[CHOOSE j \in NotesOf(t) :
                                \A k \in NotesOf(t) : k <= j].new]_vars

\* C6: task_destroy has just reported CANCELED -> NONE.
C6_Witness ==
    \E i \in 1 .. Len(sched) :
        /\ sched[i].old = "CANCELED"
        /\ sched[i].new = "NONE"
        /\ task[sched[i].task].state = "NONE"

\* C9 (as stated): task_wait on the id of a task that task_cancel(t, v) was
\* called on before yields out = v.
C9_WaitYieldsExitValue ==
    (/\ ret.id # NULL
     /\ ret.expect \in ExitValues
     /\ CancelledWith(ret.id) = ret.expect)
        => (ret.code = "SUCCESS" /\ ret.out = ret.expect)

\* The id belongs to no task of the registry.
UnknownId(id) == \A t \in Range(all_tasks) : task[t].id # id

\* C10: task_wait with an id of no task in the registry returns NO_SUCH_TASK,
\* installs no blocker, changes no task's state, tells the scheduler nothing,
\* does not yield, and leaves the atomic depth as it found it.
C10_WaitUnknownId ==
    [][\A s \in Slots, id \in WaitIds :
          (/\ Ready(s)
           /\ UnknownId(id)
           /\ \/ ret'.task = s /\ ret'.id = id /\ ret'.code = "ERR_NO_SUCH_TASK"
              \/ pc'[s] = "wait_block" /\ arg'[s].id = id)
          => /\ ret'.code = "ERR_NO_SUCH_TASK"
             /\ pc'[s] = "ready"
             /\ task' = task
             /\ blk' = blk
             /\ sched' = <<>>
             /\ running' = running
             /\ atomic_depth' = atomic_depth]_vars

\* C10: task_wait has just returned NO_SUCH_TASK for the id of a task that
\* was destroyed.
C10_Witness ==
    /\ ret.code = "ERR_NO_SUCH_TASK"
    /\ \E t \in Slots : heap[t] = "freed" /\ task[t].id = ret.id
    /\ atomic_depth = 0

\* The mappings, over all tasks, that reference the object.
MappingsOf(o) ==
    {<<t, i>> \in Slots \X (1 .. MaxMappings) :
        i <= Len(memory_mapping[t]) /\ memory_mapping[t][i].object = o}

\* The calls of task_shared_memory_include that hold the reference
\* memory_object_by_id took for them on the object.
LookupsOf(o) ==
    {s \in Slots :
        /\ arg[s].op = "include"
        /\ arg[s].object = o
        /\ pc[s] \in {"mapping_create", "deref_lock", "deref"}}

\* C2 (as stated): the refcount of every object of the registry is the number
\* of mappings that reference it plus the number of references held by
\* memory_object_by_id calls in flight.
C2_RefcountCountsMappingsAndLookups ==
    \A o \in Range(memory_objects) :
        object[o].refcount = Cardinality(MappingsOf(o)) + Cardinality(LookupsOf(o))

\* Every object of the registry is live and has a refcount of at least one.
RegistryHoldsNoCorpse ==
    \A o \in Range(memory_objects) :
        object[o].alloc = "live" /\ object[o].refcount >= 1

\* C7: the registry never holds an object that is destroyed or whose refcount
\* is zero, and memory_object_by_id returns only an object of the registry
\* that is live, has the id asked for and a refcount of at least one, which it
\* increments by one; when it returns nothing it changes no refcount.
C7_LookupNeverReturnsCorpse ==
    /\ []RegistryHoldsNoCorpse
    /\ [][\A s \in Slots :
            (pc[s] = "by_id" /\ pc'[s] # "by_id") =>
                IF pc'[s] = "mapping_create"
                THEN LET o == arg'[s].object
                     IN  /\ o \in Range(memory_objects)
                         /\ object[o].alloc = "live"
                         /\ object[o].id = arg[s].handle
                         /\ object[o].refcount >= 1
                         /\ object'[o] = [object[o] EXCEPT !.refcount = @ + 1]
                         /\ \A p \in ObjectSlots \ {o} : object'[p] = object[p]
                ELSE /\ object' = object
                     /\ \A o \in Range(memory_objects) :
                            object[o].id # arg[s].handle]_vars

\* C7: memory_object_by_id, in its critical section, is looking for the id of
\* an object whose last reference another task is about to drop.
C7_Witness ==
    \E s, t \in UserSlots :
        /\ s # t
        /\ pc[s] = "by_id"
        /\ pc[t] = "deref_lock"
        /\ arg[t].op = "free"
        /\ object[arg[t].object].alloc = "live"
        /\ object[arg[t].object].refcount = 1
        /\ object[arg[t].object].id = arg[s].handle

\* C8 (as stated): task A has allocated an object and has it mapped, its
\* handle is h, and task B calls task_shared_memory_include(h); if A's mapping
\* still exists when the call returns b, then B's mapping at b is of A's
\* object, has its size, and get_handle gives h for it.
C8_HandleRoundTrip ==
    (/\ ret.op = "include"
     /\ ret.code = "SUCCESS"
     /\ ret.peer # NULL
     /\ \E A \in UserSlots \ {ret.task} : MapsOwn(A, ret.peer, ret.handle))
        => LET mb == task_memory_mapping_by_address(World, ret.task, ret.address)
           IN  /\ mb.object = ret.peer
               /\ mb.size = object[ret.peer].size
               /\ object[mb.object].id = ret.handle

\* The base addresses of the task's mappings.
Bases(t) == {memory_mapping[t][i].address : i \in 1 .. Len(memory_mapping[t])}

\* The step leaves every mapping list, the registry and every object alone.
ShmStateUnchanged ==
    /\ memory_mapping' = memory_mapping
    /\ memory_objects' = memory_objects
    /\ object' = object

\* C11: task_shared_memory_free and task_shared_memory_get_handle called with
\* an address that is not the base of one of the task's mappings, and
\* task_shared_memory_include called with the id of no object of the
\* registry, return BAD_ADDRESS and change no mapping list, not the registry
\* and no refcount; with the base of a mapping they do not return BAD_ADDRESS.
C11_BadArgumentChangesNothing ==
    [][\A s \in UserSlots :
          /\ (/\ Ready(s)
              /\ ret'.task = s
              /\ ret'.op \in {"free", "get_handle"})
                => IF ret'.address \in Bases(s)
                   THEN ret'.code = "SUCCESS"
                   ELSE /\ ret'.code = "ERR_BAD_ADDRESS"
                        /\ pc'[s] = "ready"
                        /\ ShmStateUnchanged
          /\ (Ready(s) /\ arg'[s].op = "free") => arg'[s].address \in Bases(s)
          /\ (Ready(s) /\ arg'[s].op = "include") => ShmStateUnchanged
          /\ (/\ CanStep(s)
              /\ pc[s] = "by_id"
              /\ pc'[s] # "by_id"
              /\ \A o \in Range(memory_objects) : object[o].id # arg[s].handle)
                => /\ ret'.task = s
                   /\ ret'.op = "include"
                   /\ ret'.code = "ERR_BAD_ADDRESS"
                   /\ pc'[s] = "ready"
                   /\ memory_objects_lock' = NULL
                   /\ ShmStateUnchanged]_vars

\* C11: task_shared_memory_free has just refused an address inside one of the
\* task's mappings, while an object is registered.
C11_Witness ==
    /\ ret.op = "free"
    /\ ret.code = "ERR_BAD_ADDRESS"
    /\ ret.task \in UserSlots
    /\ ret.address - 1 \in Bases(ret.task)
    /\ memory_objects # <<>>

\* C12: task_sleep(task, 0) returns TIMEOUT at once: no call of task_sleep
\* with timeout 0 reaches the scheduler_yield of task_block, and a call of
\* task_sleep that returns in the step it is made in leaves the task's state
\* as it was and its blocker slot empty, reports nothing to the scheduler,
\* hands the processor to no other task and restores the atomic depth.
C12_SleepZeroReturnsAtOnce ==
    [][\A s \in Slots :
          Ready(s) =>
              /\ ~(arg'[s].op = "sleep" /\ arg'[s].timeout = 0)
              /\ (ret'.task = s /\ ret'.op = "sleep") =>
                    /\ ret'.code = "TIMEOUT"
                    /\ pc'[s] = "ready"
                    /\ task'[s].state = task[s].state
                    /\ task'[s].state # "BLOCKED"
                    /\ task'[s].blocker = NULL
                    /\ blk'[s] = NoBlocker
                    /\ sched' = <<>>
                    /\ running' = running
                    /\ atomic_depth' = atomic_depth]_vars

\* C12: task_sleep has just returned TIMEOUT to a task that had been blocked
\* before, in the step it was called in.
C12_Witness ==
    /\ ret.op = "sleep"
    /\ ret.code = "TIMEOUT"
    /\ ret.task \in UserSlots
    /\ pc[ret.task] = "ready"
    /\ tick > 0
    /\ task[ret.task].blocker = NULL
    /\ atomic_depth = 0

\* The task is in a call of task_sleep with a timeout above 0 and task_cancel
\* has not been applied to it.
Sleeping(s) ==
    /\ heap[s] = "live"
    /\ arg[s].op = "sleep"
    /\ arg[s].timeout > 0
    /\ task[s].exit_value = 0
    /\ task[s].state # "CANCELED"

\* C13 (as stated): a task that called task_sleep(task, n), n > 0, at tick t0
\* and is not cancelled: its blocker does not fire before the tick has
\* reached t0 + n, and the task goes on in task_sleep, which returns TIMEOUT,
\* only after the blocker has fired and made it RUNNING.
C13_SleepLastsItsTimeout ==
    [][\A s \in Slots :
          /\ (/\ Sleeping(s)
              /\ blk[s].result # "UNBLOCKED"
              /\ blk'[s].result = "UNBLOCKED")
                => /\ tick' >= arg[s].since + arg[s].timeout
                   /\ task'[s].state = "RUNNING"
          /\ (/\ Sleeping(s)
              /\ pc[s] = "block_resume"
              /\ pc'[s] # "block_resume")
                => /\ blk[s].result = "UNBLOCKED"
                   /\ tick >= arg[s].since + arg[s].timeout
                   /\ ret'.code = "TIMEOUT"]_vars

\* The garbage collector is in its sweep.
Sweeping == pc[GcSlot] \in {"gc_iterate", "destroy_mappings", "destroy_free"}

\* C14 (as stated): a task whose state has become CANCELED is reclaimed by
\* the garbage collector, and a sweep destroys only CANCELED tasks and leaves
\* the state of the others alone; here: a sweep removes from the registry
\* only tasks that are CANCELED, changes the state of no other task, and when
\* it ends no task that task_cancel was applied to before is left in the
\* registry.
C14_SweepReclaimsTheCanceled ==
    [][/\ \A t \in Slots :
            (Sweeping /\ t \in Range(all_tasks) /\ t \notin Range(all_tasks'))
                => task[t].state = "CANCELED"
       /\ \A t \in Slots :
            (Sweeping /\ t \in Range(all_tasks'))
                => task'[t].state = task[t].state
       /\ (pc[GcSlot] = "gc_iterate" /\ pc'[GcSlot] = "gc_sleep")
                => \A t \in Range(all_tasks) : task[t].exit_value = 0]_vars

\* C15: the kernel's address space is never destroyed, whatever tasks are
\* created and destroyed: task_destroy destroys the address space of a task
\* only when it is not the kernel's, an address space made for a user task is
\* destroyed once when its task is destroyed, and not before.
C15_KernelSpaceNeverDestroyed ==
    /\ pdir_destroyed[memory_kpdir] = 0
    /\ \A t \in Slots :
          /\ heap[t] = "unused" => pdir_destroyed[memory_pdir_create(t)] = 0
          /\ heap[t] = "live" => pdir_destroyed[memory_pdir_create(t)] = 0
          /\ heap[t] = "freed" =>
                pdir_destroyed[memory_pdir_create(t)] =
                    IF pdir[t] = memory_kpdir THEN 0 ELSE 1

\* C15: a task that ran in the kernel's address space has been destroyed.
C15_Witness ==
    \E t \in UserSlots :
        /\ heap[t] = "freed"
        /\ pdir[t] = memory_kpdir
        /\ pdir_destroyed[memory_kpdir] = 0

\* The locks of this layer that task s holds: the registry lock and the cwd
\* locks of the tasks that exist.
LocksHeldBy(s) ==
    (IF memory_objects_lock = s THEN {"memory_objects_lock"} ELSE {})
        \cup {t \in Live : cwd_lock[t] = s}

AtYield(s) == heap[s] = "live" /\ pc[s] \in {"block_yield", "exit_yield"}

Edges ==
    {<<"NONE", "RUNNING">>, <<"RUNNING", "BLOCKED">>, <<"BLOCKED", "RUNNING">>,
     <<"RUNNING", "CANCELED">>, <<"RUNNING", "HANG">>}
        \cup {<<st, "NONE">> : st \in TaskStates}

\* C17: every transition reported to the scheduler is an edge of the state
\* machine: NONE to RUNNING, RUNNING to BLOCKED, BLOCKED to RUNNING, RUNNING to
\* CANCELED, RUNNING to HANG, or any state to NONE; so cancel is reported only
\* for RUNNING tasks and go only for NONE tasks.
C17_ReportedTransitionsAreEdges ==
    \A i \in 1 .. Len(sched) : <<sched[i].old, sched[i].new>> \in Edges

\* The calls of task_set_cwd that hold a reference to the node: those between
\* the lookup of a directory and the cleanup.
HoldersOf(node) == {s \in UserSlots : pc[s] = "cwd_store" /\ arg[s].node = node}

SetCwdReturns(s) ==
    CanStep(s) /\ pc[s] \in {"cwd_lookup", "cwd_store"} /\ pc'[s] = "ready"

\* C18: task_set_cwd returns NO_SUCH_FILE_OR_DIRECTORY when the resolved path
\* names no node and NOT_A_DIRECTORY when the node is not a directory, the
\* task's cwd being unchanged in both cases; the cwd changes only in a call
\* that returns SUCCESS, to the resolved path; when the call returns, the
\* reference the lookup took is released, once, and the cwd lock is free.
C18_SetCwdOnlyOnSuccess ==
    [][/\ \A s \in UserSlots :
            /\ SetCwdReturns(s) =>
                  LET node == filesystem_find(arg[s].path)
                  IN  /\ ret'.task = s /\ ret'.op = "set_cwd"
                      /\ cwd_lock'[s] = NULL
                      /\ IF node = NULL
                         THEN /\ ret'.code = "ERR_NO_SUCH_FILE_OR_DIRECTORY"
                              /\ cwd_path'[s] = cwd_path[s]
                              /\ fsnode_refs' = fsnode_refs
                         ELSE IF FsNodeType(node) # "FILE_TYPE_DIRECTORY"
                         THEN /\ ret'.code = "ERR_NOT_A_DIRECTORY"
                              /\ cwd_path'[s] = cwd_path[s]
                              /\ fsnode_refs' = fsnode_refs
                         ELSE /\ ret'.code = "SUCCESS"
                              /\ cwd_path'[s] = arg[s].path
                              /\ fsnode_refs' =
                                    [fsnode_refs EXCEPT ![node] = @ - 1]
            /\ cwd_path'[s] # cwd_path[s] =>
                  SetCwdReturns(s) /\ ret'.code = "SUCCESS"
       /\ \A node \in FsNodes :
            fsnode_refs'[node] = Cardinality(HoldersOf(node))']_vars

\* A task whose cwd is /a has asked for the file /a/f and been refused.
C18_Witness ==
    /\ ret.op = "set_cwd"
    /\ ret.code = "ERR_NOT_A_DIRECTORY"
    /\ ret.task \in UserSlots
    /\ cwd_path[ret.task] = <<"a">>
    /\ cwd_lock[ret.task] = NULL
    /\ \A node \in FsNodes : fsnode_refs[node] = 0

\* Task s has called task_block and task_block has returned without yielding.
FastPathTaken(s) == CanStep(s) /\ ret'.task = s /\ ret'.block = "UNBLOCKED"

\* C19: when can_unblock is true at the installation of the blocker,
\* task_block returns UNBLOCKED in the same step: a wait on a task that is
\* CANCELED takes this path and passes the exit value on; on this path
\* on_unblock has been called once when the blocker has one (a wait blocker)
\* and never otherwise, the blocker slot is empty again, the task's state is
\* what it was, nothing is reported to the scheduler, the task does not
\* yield, and the atomic depth is what it was at entry.
C19_FastPathOfTaskBlock ==
    [][\A s \in Slots :
          /\ FastPathTaken(s) =>
                /\ ret'.calls = (IF ret'.op = "sleep" THEN 0 ELSE 1)
                /\ task'[s].blocker = NULL
                /\ blk'[s] = NoBlocker
                /\ task'[s].state = task[s].state
                /\ sched' = <<>>
                /\ pc'[s] \notin {"block_yield", "block_resume"}
                /\ running' = running
                /\ atomic_depth' = atomic_depth
          /\ (/\ CanStep(s)
              /\ pc[s] = "wait_block"
              /\ pc'[s] # "wait_block"
              /\ task[s].blocker = NULL
              /\ heap[arg[s].task] = "live"
              /\ task[arg[s].task].state = "CANCELED") =>
                /\ FastPathTaken(s)
                /\ ret'.out = task[arg[s].task].exit_value]_vars

\* task_wait on a task cancelled with 7 has returned through the fast path.
C19_Witness ==
    /\ ret.block = "UNBLOCKED"
    /\ ret.calls = 1
    /\ ret.out = 7
    /\ ret.task \in Actors
    /\ task[ret.task].state = "RUNNING"
    /\ task[ret.task].blocker = NULL
    /\ atomic_depth = 0

\* The tasks whose installed wait blocker the scheduler polls on a timer tick.
PolledWaiters ==
    {t \in Range(all_tasks) :
        /\ task[t].state = "BLOCKED"
        /\ task[t].blocker # NULL
        /\ blk[t].kind = "wait"}

\* C20: the target of a wait blocker is in the task registry whenever the
\* blocker reads it: when task_wait creates and installs the blocker, whose
\* can_unblock and on_unblock read the target at once, and when the scheduler
\* polls the installed blocker on a timer tick.
C20_WaitTargetIsRegistered ==
    [][/\ \A s \in Slots :
            (CanStep(s) /\ pc[s] = "wait_block" /\ pc'[s] # "wait_block") =>
                (arg[s].task \in Range(all_tasks) /\ heap[arg[s].task] = "live")
       /\ tick' # tick =>
            \A t \in PolledWaiters :
                (blk[t].target \in Range(all_tasks) /\ heap[blk[t].target] = "live")]_vars

\* The tasks task_destroy is running on or has run on.
Destroyed == {t \in Slots : t = victim \/ heap[t] = "freed"}

\* C21: a task that is reclaimed has, from the moment task_destroy starts on
\* it, an empty blocker slot and no blocker left allocated, also when it was
\* cancelled while BLOCKED in task_sleep or task_wait; and a waiter that the
\* scheduler wakes because its target is CANCELED receives the target's exit
\* value.
C21_CancelMidBlockReleasesBlocker ==
    [][/\ \A t \in Destroyed' :
            task'[t].blocker = NULL /\ blk'[t] = NoBlocker
       /\ \A w \in PolledWaiters :
            (/\ tick' # tick
             /\ heap[blk[w].target] = "live"
             /\ blk'[w].result = "UNBLOCKED") =>
                out'[w] = task[blk[w].target].exit_value]_vars

\* The objects memory_object_create has given an id to.
Created == {o \in ObjectSlots : object[o].id # NULL}

\* C22: the objects memory_object_create has made have different ids, so no
\* two objects of the registry share an id and memory_object_by_id finds at
\* most one object for an id.
C22_ObjectIdsUnique ==
    /\ \A o1 \in Created, o2 \in Created :
          object[o1].id = object[o2].id => o1 = o2
    /\ \A id \in Handles :
          Cardinality({i \in 1 .. Len(memory_objects) :
                          object[memory_objects[i]].id = id}) <= 1

\* The objects the mappings of the tasks other than t reference, but for a
\* mapping its task is destroying, whose reference is gone before it leaves
\* the list.
MappedByOthers(t) ==
    UNION {{memory_mapping[u][i].object :
                i \in {j \in 1 .. Len(memory_mapping[u]) :
                          ~(pc[u] = "mapping_remove"
                              /\ memory_mapping[u][j].address = arg[u].address)}} :
              u \in Live \ {t}}

\* task_destroy is about to destroy the first mapping of its task.
DestroysMapping ==
    /\ CanStep(GcSlot)
    /\ pc[GcSlot] = "destroy_mappings"
    /\ memory_mapping[victim] # <<>>
    /\ memory_mapping'[victim] # memory_mapping[victim]

\* C23: task_destroy destroys every mapping of its task: each turn of its
\* loop removes one mapping, whose object exists, and takes one reference
\* from that object and from no other; an object left with no reference
\* leaves the registry and is freed, once; an object with references left,
\* and every object another task maps, stays registered; and the loop ends
\* with no mapping left.
C23_DestroyReleasesMappings ==
    [][/\ DestroysMapping =>
            LET m == Head(memory_mapping[victim])
                o == m.object
            IN  /\ memory_mapping'[victim] = Tail(memory_mapping[victim])
                /\ object[o].alloc = "live"
                /\ object'[o].refcount = object[o].refcount - 1
                /\ \A p \in ObjectSlots \ {o} : object'[p] = object[p]
                /\ IF object'[o].refcount = 0
                   THEN /\ object'[o].alloc = "freed"
                        /\ memory_objects' = list_remove(memory_objects, o)
                   ELSE /\ object'[o].alloc = "live"
                        /\ memory_objects' = memory_objects
                /\ \A p \in MappedByOthers(victim)' :
                      /\ object'[p].alloc = "live"
                      /\ p \in Range(memory_objects')
       /\ (pc[GcSlot] = "destroy_mappings" /\ pc'[GcSlot] = "destroy_free") =>
            memory_mapping[victim] = <<>>]_vars

ReaperWaitsForLock ==
    /\ running = GcSlot
    /\ atomic_depth > 0
    /\ \/ /\ pc[GcSlot] = "destroy_mappings"
          /\ memory_mapping[victim] # <<>>
          /\ memory_objects_lock # NULL
       \/ /\ pc[GcSlot] = "destroy_free"
          /\ cwd_lock[victim] # NULL

\* C25: the garbage collector, destroying a task inside its atomic section,
\* never reaches the lock_acquire of the registry lock or of the task's cwd
\* lock while a task that was preempted holds that lock.
C25_ReaperNeverWaitsForLock == ~ReaperWaitsForLock

=============================================================================
